---- MODULE Spec2Model ----
(***************************************************************************)
(* cassandradump.py as a state machine: main, setup_cluster, import_data,  *)
(* can_execute_concurrently, export_data and table_to_cqlfile.             *)
(*                                                                         *)
(* Text is a sequence of one-character strings, so that the tests the code *)
(* makes on text (startswith, endswith, upper, split, line iteration) are  *)
(* computed on characters.                                                 *)
(***************************************************************************)
EXTENDS Integers, Sequences, FiniteSets, TLC

VARIABLES
    args,                   \* the parsed command line (global args)
    run,                    \* which invocation of the program this is (1 or 2)
    pc,                     \* position of the control thread
    contacted,              \* setup_cluster has connected a session in this invocation
    queries,                \* SELECT queries executed on the session (export)
    file,                   \* content of the dump file on disk
    lines,                  \* import: lines of f not read yet
    statement,              \* import: the buffer being reassembled
    concurrent_statements,  \* import: the pending concurrent batch
    cnt,                    \* import: statements dispatched so far
    log,                    \* calls made on the execution sink, in order
    section,                \* export: which selection loop is running
    todo,                   \* export: entries of that loop not processed yet
    tableval,               \* export: ordered columns of the table being dumped
    counters,               \* export: row encoder's counter column names
    non_counters,           \* export: row encoder's other column names
    target,                 \* export: keyspace and table name given to table_to_cqlfile
    fetched,                \* export: rows fetched from the cursor
    written                 \* export: rows written by table_to_cqlfile

vars == <<args, run, pc, contacted, queries, file, lines, statement,
          concurrent_statements, cnt, log, section, todo, tableval, counters,
          non_counters, target, fetched, written>>

import_vars == <<lines, statement, concurrent_statements, cnt, log>>
export_vars == <<section, todo, tableval, counters, non_counters, target, fetched, written>>

(***************************************************************************)
(* Bounds of the model.                                                    *)
(***************************************************************************)
MaxLines == 4       \* lines of an import file
MaxCols == 3        \* columns of a table
MaxRows == 2        \* rows the cursor yields for one table

\* cassandradump.py:22 sets 1000; the model runs the same code with a
\* threshold that files of MaxLines lines can reach.
CONCURRENT_BATCH_SIZE == 2

(***************************************************************************)
(* Text.                                                                   *)
(***************************************************************************)
None == <<>>

LowerChars == <<"a","b","c","d","e","f","g","h","i","j","k","l","m",
                "n","o","p","q","r","s","t","u","v","w","x","y","z">>
UpperChars == <<"A","B","C","D","E","F","G","H","I","J","K","L","M",
                "N","O","P","Q","R","S","T","U","V","W","X","Y","Z">>

upper_char(c) ==
    IF \E i \in 1..26 : LowerChars[i] = c
    THEN UpperChars[CHOOSE i \in 1..26 : LowerChars[i] = c]
    ELSE c

\* str.upper()
upper(s) == [i \in 1..Len(s) |-> upper_char(s[i])]

\* str.startswith(p)
startswith(s, p) == Len(s) >= Len(p) /\ SubSeq(s, 1, Len(p)) = p

\* str.endswith(p)
endswith(s, p) == Len(s) >= Len(p) /\ SubSeq(s, Len(s) - Len(p) + 1, Len(s)) = p

\* c in s
contains(s, c) == \E i \in 1..Len(s) : s[i] = c

\* index of the first occurrence of c in s (c occurs in s)
find(s, c) == CHOOSE i \in 1..Len(s) : s[i] = c /\ \A j \in 1..(i - 1) : s[j] # c

\* s.split(c)
RECURSIVE split(_, _)
split(s, c) ==
    IF ~contains(s, c) THEN <<s>>
    ELSE <<SubSeq(s, 1, find(s, c) - 1)>> \o split(SubSeq(s, find(s, c) + 1, Len(s)), c)

\* s.strip() for the blank character
RECURSIVE strip(_)
strip(s) ==
    IF s # <<>> /\ Head(s) = " " THEN strip(Tail(s))
    ELSE IF s # <<>> /\ s[Len(s)] = " " THEN strip(SubSeq(s, 1, Len(s) - 1))
    ELSE s

\* sep.join(parts)
RECURSIVE join(_, _)
join(sep, parts) ==
    IF parts = <<>> THEN <<>>
    ELSE IF Len(parts) = 1 THEN parts[1]
    ELSE parts[1] \o sep \o join(sep, Tail(parts))

\* 'for line in f': the lines of f, each with its newline; the last one may have none
RECURSIVE readlines(_)
readlines(f) ==
    IF f = <<>> THEN <<>>
    ELSE IF ~contains(f, "\n") THEN <<f>>
    ELSE <<SubSeq(f, 1, find(f, "\n"))>> \o readlines(SubSeq(f, find(f, "\n") + 1, Len(f)))

Delim == <<";", "\n">>
INSERT == <<"I","N","S","E","R","T">>
UPDATE == <<"U","P","D","A","T","E">>

(***************************************************************************)
(* Import files: every concatenation of at most MaxLines of these lines.   *)
(***************************************************************************)
LinePool == {
    <<"I","N","S","E","R","T"," ","a",";","\n">>,     \* a concurrency-safe statement
    <<"u","p","d","a","t","e"," ","b",";","\n">>,     \* the same, in lower case
    <<"D","R","O","P"," ","x",";","\n">>,             \* a strict statement
    <<"I","N","S","E","R","T"," ","c","\n">>,         \* first line of a longer statement
    <<"I","N","S","E","R","T"," ","z">> }             \* text with no delimiter

RECURSIVE FilesOf(_)
FilesOf(n) ==
    IF n = 0 THEN { <<>> }
    ELSE LET S == FilesOf(n - 1) IN S \cup { f \o l : f \in S, l \in LinePool }

Files == FilesOf(MaxLines)

(***************************************************************************)
(* can_execute_concurrently                                                *)
(***************************************************************************)
can_execute_concurrently_no_upper(stmt) ==
    IF args.sync THEN FALSE
    ELSE startswith(stmt, INSERT) \/ startswith(stmt, UPDATE)

can_execute_concurrently(stmt) ==
    IF args.sync THEN FALSE
    ELSE IF startswith(upper(stmt), INSERT) \/ startswith(upper(stmt), UPDATE) THEN TRUE
    ELSE FALSE

(***************************************************************************)
(* The execution sink.  A call blocks until the statement (execute) or     *)
(* every statement of the batch (execute_concurrent) has completed, or     *)
(* raises.  The log keeps the calls in the order they were made; idx is    *)
(* the statement's position in the file.                                   *)
(***************************************************************************)
execute_concurrent(batch, ok) == [call |-> "execute_concurrent", stmts |-> batch, ok |-> ok]

execute(stmt, idx, ok) ==
    [call |-> "execute", stmts |-> << [text |-> stmt, idx |-> idx] >>, ok |-> ok]

\* No try/except around the calls: a raising call ends the run.
after_call_swallowed(ok, next) == next

after_call(ok, next) == IF ok THEN next ELSE "error"

(***************************************************************************)
(* main and setup_cluster                                                  *)
(***************************************************************************)
main ==
    /\ pc = "main"
    /\ IF ~args.import_file /\ ~args.export_file
       THEN pc' = "exit1" /\ contacted' = contacted
       ELSE IF args.import_file /\ args.export_file
       THEN pc' = "exit1" /\ contacted' = contacted
       ELSE /\ contacted' = TRUE          \* session = setup_cluster()
            /\ pc' = IF args.import_file THEN "import_data" ELSE "export_data"
    /\ UNCHANGED <<args, run, queries, file>>
    /\ UNCHANGED import_vars
    /\ UNCHANGED export_vars

(***************************************************************************)
(* import_data                                                             *)
(***************************************************************************)
import_data ==
    /\ pc = "import_data"
    /\ lines' = readlines(file)
    /\ cnt' = 0
    /\ statement' = <<>>
    /\ concurrent_statements' = <<>>
    /\ pc' = "import_loop"
    /\ UNCHANGED <<args, run, contacted, queries, file, log>>
    /\ UNCHANGED export_vars

\* line 144
batch_full_off_by_one(batch) == Len(batch) > CONCURRENT_BATCH_SIZE

batch_full(batch) == Len(batch) >= CONCURRENT_BATCH_SIZE

\* line 148
flush_before_strict_never(batch) == FALSE

flush_before_strict(batch) == Len(batch) > 0

\* One iteration of 'for line in f'.
import_line ==
    /\ pc = "import_loop"
    /\ lines # <<>>
    /\ lines' = Tail(lines)
    /\ LET stmt == statement \o Head(lines) IN
       IF ~endswith(stmt, Delim)
       THEN /\ statement' = stmt
            /\ UNCHANGED <<concurrent_statements, cnt, log, pc>>
       ELSE IF can_execute_concurrently(stmt)
       THEN LET batch == Append(concurrent_statements, [text |-> stmt, idx |-> cnt + 1]) IN
            IF batch_full(batch)
            THEN \E ok \in BOOLEAN :
                    /\ log' = Append(log, execute_concurrent(batch, ok))
                    /\ concurrent_statements' = IF ok THEN <<>> ELSE batch
                    /\ statement' = IF ok THEN <<>> ELSE stmt
                    /\ cnt' = IF ok THEN cnt + 1 ELSE cnt
                    /\ pc' = after_call(ok, "import_loop")
            ELSE /\ concurrent_statements' = batch
                 /\ statement' = <<>>
                 /\ cnt' = cnt + 1
                 /\ UNCHANGED <<log, pc>>
       ELSE \E okf \in BOOLEAN, oke \in BOOLEAN :
               LET flush == flush_before_strict(concurrent_statements) IN
               /\ ~flush => okf
               /\ ~okf => oke
               /\ log' = log
                         \o (IF flush THEN <<execute_concurrent(concurrent_statements, okf)>>
                             ELSE <<>>)
                         \o (IF okf THEN <<execute(stmt, cnt + 1, oke)>> ELSE <<>>)
               /\ concurrent_statements' = IF flush /\ okf THEN <<>> ELSE concurrent_statements
               /\ statement' = IF okf /\ oke THEN <<>> ELSE stmt
               /\ cnt' = IF okf /\ oke THEN cnt + 1 ELSE cnt
               /\ pc' = after_call(okf /\ oke, "import_loop")
    /\ UNCHANGED <<args, run, contacted, queries, file>>
    /\ UNCHANGED export_vars

import_flush_remaining_skipped ==
    /\ pc = "import_loop"
    /\ lines = <<>>
    /\ pc' = "import_tail"
    /\ UNCHANGED <<args, run, contacted, queries, file>>
    /\ UNCHANGED import_vars
    /\ UNCHANGED export_vars

\* End of input, lines 160-161: the list is flushed and not reset.
import_flush_remaining ==
    /\ pc = "import_loop"
    /\ lines = <<>>
    /\ IF Len(concurrent_statements) > 0
       THEN \E ok \in BOOLEAN :
               /\ log' = Append(log, execute_concurrent(concurrent_statements, ok))
               /\ pc' = after_call(ok, "import_tail")
       ELSE /\ log' = log
            /\ pc' = "import_tail"
    /\ UNCHANGED <<lines, statement, concurrent_statements, cnt>>
    /\ UNCHANGED <<args, run, contacted, queries, file>>
    /\ UNCHANGED export_vars

\* Lines 163-164.
import_tail ==
    /\ pc = "import_tail"
    /\ IF statement # <<>>
       THEN \E ok \in BOOLEAN :
               /\ log' = Append(log, execute(statement, cnt + 1, ok))
               /\ pc' = after_call(ok, "import_close")
       ELSE /\ log' = log
            /\ pc' = "import_close"
    /\ UNCHANGED <<lines, statement, concurrent_statements, cnt>>
    /\ UNCHANGED <<args, run, contacted, queries, file>>
    /\ UNCHANGED export_vars

\* f.close(), return to main, cleanup_cluster(session).
import_close ==
    /\ pc = "import_close"
    /\ pc' = "done"
    /\ UNCHANGED <<args, run, contacted, queries, file>>
    /\ UNCHANGED import_vars
    /\ UNCHANGED export_vars

(***************************************************************************)
(* The cluster: keyspace "ks" with one table "t", beside the system        *)
(* keyspace.  The table's columns and rows are read from the cluster when  *)
(* the export reaches them.                                                *)
(***************************************************************************)
system == <<"s","y","s","t","e","m">>
system_traces == <<"s","y","s","t","e","m","_","t","r","a","c","e","s">>
ks == <<"k","s">>
t == <<"t">>

\* session.cluster.metadata.keyspaces.keys()
ClusterKeyspaces == <<system, ks>>

\* keyspace.tables
ClusterTables(keyname) == IF keyname = ks THEN <<t>> ELSE <<>>

ColumnPool == {
    [name |-> <<"p">>, typename |-> "int"],
    [name |-> <<"k">>, typename |-> "int"],
    [name |-> <<"c">>, typename |-> "counter"],
    [name |-> <<"v">>, typename |-> "text"] }

\* tableval.columns: an ordered sequence of distinct columns
Tables ==
    UNION { { cols \in [1..n -> ColumnPool] :
                \A i, j \in 1..n : i # j => cols[i].name # cols[j].name } : n \in 1..MaxCols }

\* cell values as the driver hands them over: None, an integer, or text
NoneValue == [kind |-> "None", n |-> 0, s |-> <<>>]
IntValue(n) == [kind |-> "int", n |-> n, s |-> <<>>]
TextValue(s) == [kind |-> "text", n |-> 0, s |-> s]

Cells(typename) ==
    IF typename = "int" THEN { IntValue(1) }
    ELSE IF typename = "counter" THEN { NoneValue, IntValue(5) }
    ELSE { NoneValue, TextValue(<<"x","\n","y">>), TextValue(<<"a",";","\n","b">>) }

AllCells == Cells("int") \cup Cells("counter") \cup Cells("text")

names(cols) == { cols[i].name : i \in 1..Len(cols) }

\* position of the column named k
column_index(cols, k) == CHOOSE i \in 1..Len(cols) : cols[i].name = k

\* the rows a cursor over the table may yield
RowsOf(cols) ==
    { row \in [names(cols) -> AllCells] :
        \A i \in 1..Len(cols) : row[cols[i].name] \in Cells(cols[i].typename) }

(***************************************************************************)
(* Value encoders (the driver's session.encoder).                          *)
(***************************************************************************)
NULL == <<"N","U","L","L">>
Digits == <<"0","1","2","3","4","5","6","7","8","9">>

RECURSIVE decimal(_)
decimal(n) == IF n < 10 THEN <<Digits[n + 1]>> ELSE decimal(n \div 10) \o <<Digits[(n % 10) + 1]>>

\* text with every quote doubled
RECURSIVE quote_escaped(_)
quote_escaped(s) ==
    IF s = <<>> THEN <<>>
    ELSE (IF Head(s) = "'" THEN <<"'", "'">> ELSE <<Head(s)>>) \o quote_escaped(Tail(s))

cql_encode_all_types(v) ==
    IF v.kind = "None" THEN NULL
    ELSE IF v.kind = "int" THEN decimal(v.n)
    ELSE <<"'">> \o quote_escaped(v.s) \o <<"'">>

\* The column types of ColumnPool are none of blob, map, set, list: line 61.
make_non_null_value_encoder(typename, v) == cql_encode_all_types(v)

make_value_encoder(typename, v) ==
    IF v = NoneValue THEN cql_encode_all_types(v)
    ELSE make_non_null_value_encoder(typename, v)

\* line 108: values = dict((k, value_encoders[k](v)) for k, v in row.iteritems())
encoded(cols, row) ==
    [k \in DOMAIN row |-> make_value_encoder(cols[column_index(cols, k)].typename, row[k])]

(***************************************************************************)
(* make_row_encoder                                                        *)
(***************************************************************************)
is_counter(col) == col.typename = "counter"

\* length of the run of columns at the head of cols with the key of the first
RECURSIVE run_length(_)
run_length(cols) ==
    IF Len(cols) <= 1 THEN Len(cols)
    ELSE IF is_counter(cols[2]) = is_counter(cols[1]) THEN 1 + run_length(Tail(cols))
    ELSE 1

\* itertools.groupby(columns, is counter): one group per run of consecutive
\* columns with the same key
RECURSIVE groupby(_)
groupby(cols) ==
    IF cols = <<>> THEN <<>>
    ELSE LET n == run_length(cols) IN
         << [key |-> is_counter(cols[1]), names |-> [i \in 1..n |-> cols[i].name]] >>
         \o groupby(SubSeq(cols, n + 1, Len(cols)))

\* dict(groups).get(key, []): a later group replaces an earlier one with its key
partitions_get(cols, key) ==
    LET groups == groupby(cols)
        at == { i \in 1..Len(groups) : groups[i].key = key }
    IN  IF at = {} THEN <<>>
        ELSE groups[CHOOSE i \in at : \A j \in at : j <= i].names

\* the columns of a list whose encoded value is not 'NULL' (the tests of lines 85, 99, 100)
RECURSIVE not_null(_, _)
not_null(columns, values) ==
    IF columns = <<>> THEN <<>>
    ELSE (IF values[Head(columns)] # NULL THEN <<Head(columns)>> ELSE <<>>)
         \o not_null(Tail(columns), values)

quoted(c) == <<"\"">> \o c \o <<"\"">>

\* line 99
insert_columns(columns, values) ==
    LET cs == not_null(columns, values) IN [i \in 1..Len(cs) |-> quoted(cs[i])]

insert_values_unfiltered(columns, values) ==
    [i \in 1..Len(columns) |-> values[columns[i]]]

\* line 100
insert_values(columns, values) ==
    LET cs == not_null(columns, values) IN [i \in 1..Len(cs) |-> values[cs[i]]]

\* line 85
set_clause(values) ==
    LET cs == not_null(counters, values) IN
    join(<<",", " ">>,
         [i \in 1..Len(cs) |-> cs[i] \o <<" ","="," ">> \o cs[i] \o <<" ","+"," ">> \o values[cs[i]]])

\* line 86
where_clause(values) ==
    join(<<" ","A","N","D"," ">>,
         [i \in 1..Len(non_counters) |->
             non_counters[i] \o <<" ","="," ">> \o values[non_counters[i]]])

row_encoder(values) ==
    IF Len(counters) > 0
    THEN <<"U","P","D","A","T","E"," ","\"">> \o target.keyspace \o <<"\"",".","\"">>
         \o target.tablename \o <<"\""," ","S","E","T"," ">> \o set_clause(values)
         \o <<" ","W","H","E","R","E"," ">> \o where_clause(values)
    ELSE LET columns == counters \o non_counters IN
         <<"I","N","S","E","R","T"," ","I","N","T","O"," ","\"">> \o target.keyspace
         \o <<"\"",".","\"">> \o target.tablename \o <<"\""," ","(">>
         \o join(<<",", " ">>, insert_columns(columns, values))
         \o <<")"," ","V","A","L","U","E","S"," ","(">>
         \o join(<<",", " ">>, insert_values(columns, values)) \o <<")">>

(***************************************************************************)
(* table_to_cqlfile                                                        *)
(***************************************************************************)
\* Lines 41-47 and 104-105: the query is sent and the encoders are built.
table_to_cqlfile(keyspace, tablename, cols) ==
    /\ queries' = queries + 1
    /\ tableval' = cols
    /\ target' = [keyspace |-> keyspace, tablename |-> tablename]
    /\ counters' = partitions_get(cols, TRUE)
    /\ non_counters' = partitions_get(cols, FALSE)
    /\ fetched' = 0
    /\ pc' = "rows"

\* Lines 107-109: one row of the cursor.
write_row ==
    /\ pc = "rows"
    /\ fetched < MaxRows
    /\ \E row \in RowsOf(tableval) :
          LET values == encoded(tableval, row) IN
          /\ file' = file \o row_encoder(values) \o <<";", "\n">>
          /\ written' = Append(written, [values |-> values,
                                         stmt |-> row_encoder(values) \o <<";", "\n">>])
    /\ fetched' = fetched + 1
    /\ UNCHANGED <<args, run, pc, contacted, queries>>
    /\ UNCHANGED <<section, todo, tableval, counters, non_counters, target>>
    /\ UNCHANGED import_vars

\* The loop that runs next once an entry of a selection loop is finished: the
\* same loop while it has entries, else the first later loop with any (lines
\* 237 and 259), else f.close(), the return to main and cleanup_cluster.
resume(sec, entries) ==
    IF entries # <<>> THEN [pc |-> "export_loop", section |-> sec, todo |-> entries]
    ELSE IF sec = "keyspace" /\ args.cf # None
    THEN [pc |-> "export_loop", section |-> "cf", todo |-> args.cf]
    ELSE IF sec \in {"keyspace", "cf"} /\ args.filter # None
    THEN [pc |-> "export_loop", section |-> "filter", todo |-> args.filter]
    ELSE [pc |-> "done", section |-> "none", todo |-> <<>>]

\* The cursor is exhausted: table_to_cqlfile returns to the loop that called it.
rows_done ==
    /\ pc = "rows"
    /\ pc' = resume(section, todo).pc
    /\ section' = resume(section, todo).section
    /\ todo' = resume(section, todo).todo
    /\ UNCHANGED <<args, run, contacted, queries, file>>
    /\ UNCHANGED <<tableval, counters, non_counters, target, fetched, written>>
    /\ UNCHANGED import_vars

(***************************************************************************)
(* export_data                                                             *)
(***************************************************************************)
selection_options ==
    (IF args.keyspace # None THEN 1 ELSE 0)
    + (IF args.cf # None THEN 1 ELSE 0)
    + (IF args.filter # None THEN 1 ELSE 0)

\* keyspace.export_as_string() and tableval.export_as_string(): the driver's DDL
keyspace_export_as_string ==
    <<"C","R","E","A","T","E"," ","K","E","Y","S","P","A","C","E"," ","k","s",";","\n","\n",
      "C","R","E","A","T","E"," ","T","A","B","L","E"," ","k","s",".","t",";">>
table_export_as_string == <<"C","R","E","A","T","E"," ","T","A","B","L","E"," ","k","s",".","t">>

not_system(keyspaces) ==
    SelectSeq(keyspaces, LAMBDA k : k \notin {system, system_traces})

\* Lines 192-220.
export_data ==
    /\ pc = "export_data"
    /\ IF selection_options > 1
       THEN /\ pc' = "exit1"
            /\ UNCHANGED <<file, section, todo>>
       ELSE LET keyspaces == IF selection_options = 0 THEN not_system(ClusterKeyspaces)
                             ELSE args.keyspace    \* None: the loop at 222 is skipped
            IN  /\ file' = <<>>             \* codecs.open(args.export_file, 'w')
                /\ pc' = resume("keyspace", keyspaces).pc
                /\ section' = resume("keyspace", keyspaces).section
                /\ todo' = resume("keyspace", keyspaces).todo
    /\ UNCHANGED <<args, run, contacted, queries>>
    /\ UNCHANGED <<tableval, counters, non_counters, target, fetched, written>>
    /\ UNCHANGED import_vars

\* get_keyspace_or_fail, get_column_family_or_fail
keyspace_found(keyname) == \E i \in 1..Len(ClusterKeyspaces) : ClusterKeyspaces[i] = keyname
table_found(keyname, tablename) ==
    \E i \in 1..Len(ClusterTables(keyname)) : ClusterTables(keyname)[i] = tablename

\* Lines 223-235: one keyspace of the list (its only table is cql compatible).
export_keyspace ==
    /\ pc = "export_loop" /\ section = "keyspace" /\ todo # <<>>
    /\ LET keyname == Head(todo) IN
       IF ~keyspace_found(keyname)
       THEN /\ pc' = "exit1"
            /\ UNCHANGED <<file, queries, section, todo>>
            /\ UNCHANGED <<tableval, counters, non_counters, target, fetched>>
       ELSE /\ file' = IF ~args.no_create
                       THEN file \o <<"D","R","O","P"," ","K","E","Y","S","P","A","C","E"," ",
                                      "I","F"," ","E","X","I","S","T","S"," ","\"">>
                                 \o keyname \o <<"\"",";","\n">>
                                 \o keyspace_export_as_string \o <<"\n">>
                       ELSE file
            /\ IF ~args.no_insert
               THEN /\ \E cols \in Tables :
                          table_to_cqlfile(keyname, ClusterTables(keyname)[1], cols)
                    /\ section' = section
                    /\ todo' = Tail(todo)
               ELSE /\ pc' = resume(section, Tail(todo)).pc
                    /\ section' = resume(section, Tail(todo)).section
                    /\ todo' = resume(section, Tail(todo)).todo
                    /\ UNCHANGED <<queries, tableval, counters, non_counters, target, fetched>>
    /\ UNCHANGED <<args, run, contacted, written>>
    /\ UNCHANGED import_vars

\* Lines 238-257: one entry of --cf.
export_cf ==
    /\ pc = "export_loop" /\ section = "cf" /\ todo # <<>>
    /\ LET cf == Head(todo) IN
       IF ~contains(cf, ".")
          \/ ~keyspace_found(split(cf, ".")[1])
          \/ ~table_found(split(cf, ".")[1], split(cf, ".")[2])
       THEN /\ pc' = "exit1"
            /\ UNCHANGED <<file, queries, section, todo>>
            /\ UNCHANGED <<tableval, counters, non_counters, target, fetched>>
       ELSE LET keyname == split(cf, ".")[1]
                tablename == split(cf, ".")[2]
            IN  /\ file' = IF ~args.no_create
                           THEN file \o <<"D","R","O","P"," ","T","A","B","L","E"," ",
                                          "I","F"," ","E","X","I","S","T","S"," ","\"">>
                                     \o keyname \o <<"\"",".","\"">> \o tablename
                                     \o <<"\"",";","\n">>
                                     \o table_export_as_string \o <<";","\n">>
                           ELSE file
                /\ IF ~args.no_insert
                   THEN /\ \E cols \in Tables : table_to_cqlfile(keyname, tablename, cols)
                        /\ section' = section
                        /\ todo' = Tail(todo)
                   ELSE /\ pc' = resume(section, Tail(todo)).pc
                        /\ section' = resume(section, Tail(todo)).section
                        /\ todo' = resume(section, Tail(todo)).todo
                        /\ UNCHANGED <<queries, tableval, counters, non_counters, target, fetched>>
    /\ UNCHANGED <<args, run, contacted, written>>
    /\ UNCHANGED import_vars

\* Lines 260-281: one entry of --filter.
export_filter ==
    /\ pc = "export_loop" /\ section = "filter" /\ todo # <<>>
    /\ LET stripped == strip(Head(todo))
           cf == split(stripped, " ")[1]
       IN
       IF ~contains(cf, ".")
          \/ ~keyspace_found(split(cf, ".")[1])
          \/ ~table_found(split(cf, ".")[1], split(cf, ".")[2])
       THEN /\ pc' = "exit1"
            /\ UNCHANGED <<queries, section, todo>>
            /\ UNCHANGED <<tableval, counters, non_counters, target, fetched>>
       ELSE IF ~args.no_insert
       THEN /\ \E cols \in Tables :
                  table_to_cqlfile(split(cf, ".")[1], split(cf, ".")[2], cols)
            /\ section' = section
            /\ todo' = Tail(todo)
       ELSE /\ pc' = resume(section, Tail(todo)).pc
            /\ section' = resume(section, Tail(todo)).section
            /\ todo' = resume(section, Tail(todo)).todo
            /\ UNCHANGED <<queries, tableval, counters, non_counters, target, fetched>>
    /\ UNCHANGED <<args, run, contacted, file, written>>
    /\ UNCHANGED import_vars

(***************************************************************************)
(* A second invocation that imports the file the first one exported.       *)
(***************************************************************************)
import_exported_file ==
    /\ pc = "done" /\ run = 1 /\ args.export_file
    /\ run' = 2
    /\ \E sync \in BOOLEAN :
          args' = [args EXCEPT !.import_file = TRUE, !.export_file = FALSE, !.sync = sync,
                               !.keyspace = None, !.cf = None, !.filter = None]
    /\ pc' = "main"
    /\ contacted' = FALSE
    /\ UNCHANGED <<queries, file>>
    /\ UNCHANGED import_vars
    /\ UNCHANGED export_vars

(***************************************************************************)
(* Specifications.                                                         *)
(***************************************************************************)
KeyspaceArgs == { None, <<ks>>, <<(<<"z","z">>)>> }
CfArgs == { None, << <<"k","s",".","t">> >>, << <<"t">> >> }
FilterArgs == { None, << <<" ","k","s",".","t"," ","w","h","e","r","e"," ","x"," ">> >>,
                << <<"t"," ","w","h","e","r","e"," ","x">> >> }

ArgsSet ==
    { a \in [import_file : BOOLEAN, export_file : BOOLEAN, sync : BOOLEAN,
             no_create : BOOLEAN, no_insert : BOOLEAN,
             keyspace : KeyspaceArgs, cf : CfArgs, filter : FilterArgs] :
        /\ a.sync => (a.import_file /\ ~a.export_file)
        /\ (a.import_file \/ ~a.export_file) =>
              /\ ~a.no_create /\ ~a.no_insert
              /\ a.keyspace = None /\ a.cf = None /\ a.filter = None }

Init ==
    /\ args \in ArgsSet
    /\ run = 1
    /\ pc = "main"
    /\ contacted = FALSE
    /\ queries = 0
    /\ file \in (IF args.import_file /\ ~args.export_file THEN Files ELSE { <<>> })
    /\ lines = <<>>
    /\ statement = <<>>
    /\ concurrent_statements = <<>>
    /\ cnt = 0
    /\ log = <<>>
    /\ section = "none"
    /\ todo = <<>>
    /\ tableval = <<>>
    /\ counters = <<>>
    /\ non_counters = <<>>
    /\ target = [keyspace |-> <<>>, tablename |-> <<>>]
    /\ fetched = 0
    /\ written = <<>>

Next ==
    \/ main
    \/ import_data
    \/ import_line
    \/ import_flush_remaining
    \/ import_tail
    \/ import_close
    \/ export_data
    \/ export_keyspace
    \/ export_cf
    \/ export_filter
    \/ write_row
    \/ rows_done

Spec == Init /\ [][Next]_vars

SpecRoundTrip == Init /\ [][Next \/ import_exported_file]_vars

(***************************************************************************)
(* Definitions the properties are stated with.                             *)
(***************************************************************************)
\* The statements of a file, by a scan of its characters: each ends with the
\* first ';' + newline after the previous one; text left after the last
\* delimiter is a statement too.
RECURSIVE Scan(_, _)
Scan(rest, buf) ==
    IF rest = <<>> THEN (IF buf = <<>> THEN <<>> ELSE <<buf>>)
    ELSE LET b == Append(buf, Head(rest)) IN
         IF Len(b) >= 2 /\ b[Len(b) - 1] = ";" /\ b[Len(b)] = "\n"
         THEN <<b>> \o Scan(Tail(rest), <<>>)
         ELSE Scan(Tail(rest), b)

Statements(f) == Scan(f, <<>>)

\* the statements handed to the sink, in the order of the calls
RECURSIVE Flatten(_)
Flatten(calls) == IF calls = <<>> THEN <<>> ELSE Head(calls).stmts \o Flatten(Tail(calls))

Count(seq, x) == Cardinality({ i \in 1..Len(seq) : seq[i] = x })

Failed == \E a \in 1..Len(log) : ~log[a].ok

Importing == args.import_file /\ ~args.export_file
Exporting == args.export_file /\ ~args.import_file

HasCounter(cols) == \E i \in 1..Len(cols) : is_counter(cols[i])

\* the first six characters of s spell kw, in either case
SpellsKeyword(s, kw) ==
    /\ Len(s) >= Len(kw)
    /\ \A i \in 1..Len(kw) :
          \/ s[i] = kw[i]
          \/ \E j \in 1..26 : kw[i] = UpperChars[j] /\ s[i] = LowerChars[j]

Strict(text) == ~(~args.sync /\ (SpellsKeyword(text, INSERT) \/ SpellsKeyword(text, UPDATE)))

(***************************************************************************)
(* C1: every statement handed to the sink is the statement at its position *)
(* of the file, and for statements S before T in the file of which at      *)
(* least one is strict, a call holding S has returned before the call      *)
(* holding T is made.                                                      *)
(***************************************************************************)
C1_StrictOrdering ==
    Importing =>
    \A S \in { Statements(file) } :
    \A b \in 1..Len(log) : \A k \in 1..Len(log[b].stmts) :
        LET T == log[b].stmts[k]
        IN  /\ T.idx \in 1..Len(S)
            /\ T.text = S[T.idx]
            /\ \A i \in 1..(T.idx - 1) :
                  (Strict(S[i]) \/ Strict(T.text)) =>
                     \E a \in 1..(b - 1) :
                        /\ log[a].ok
                        /\ \E j \in 1..Len(log[a].stmts) : log[a].stmts[j].idx = i

\* INSERT A; DROP X; INSERT B: a batch, then the strict statement, then a batch
C1_Witness ==
    /\ Importing /\ ~args.sync
    /\ \E a, b, c \in 1..Len(log) :
          /\ a < b /\ b < c
          /\ log[a].call = "execute_concurrent"
          /\ log[b].call = "execute" /\ Strict(log[b].stmts[1].text)
          /\ log[c].call = "execute_concurrent"

(***************************************************************************)
(* C2: a table without counters, exported without DDL and imported again   *)
(* with no failing call: the statements the import hands to the sink are   *)
(* the statements table_to_cqlfile wrote, each as often as it was written. *)
(***************************************************************************)
C2_RoundTrip ==
    (run = 2 /\ pc = "done" /\ args.no_create /\ ~HasCounter(tableval)) =>
        LET got == [i \in 1..Len(Flatten(log)) |-> Flatten(log)[i].text]
            put == [i \in 1..Len(written) |-> written[i].stmt]
        IN  /\ Len(got) = Len(put)
            /\ \A i \in 1..Len(put) : Count(got, put[i]) = Count(put, put[i])

(***************************************************************************)
(* C3: for the statements of the file an import opened, and the samples,   *)
(* can_execute_concurrently is true exactly when args.sync is off and the  *)
(* statement begins, in either case, with INSERT or UPDATE.                *)
(***************************************************************************)
ClassifierSamples == {
    <<"I","n","s","e","r","t"," ","a",";","\n">>,
    <<"u","P","d","A","t","E"," ","b",";","\n">>,
    <<"D","E","L","E","T","E"," ","x",";","\n">>,
    <<"C","R","E","A","T","E"," ","x",";","\n">>,
    <<"\n","I","N","S","E","R","T"," ","a",";","\n">>,
    <<"I","N","S","E","R">>,
    <<>> }

C3_Classifier ==
    (Importing /\ pc = "import_loop" /\ cnt = 0 /\ statement = <<>>) =>
    \A S \in { Statements(file) } :
    \A s \in ClassifierSamples \cup { S[i] : i \in 1..Len(S) } :
        can_execute_concurrently(s)
            <=> (~args.sync /\ (SpellsKeyword(s, INSERT) \/ SpellsKeyword(s, UPDATE)))

\* a lower-case update went into a concurrent batch, and a DROP did not
C3_Witness ==
    /\ Importing /\ ~args.sync
    /\ \E a, b \in 1..Len(log) :
          /\ log[a].call = "execute_concurrent"
          /\ \E j \in 1..Len(log[a].stmts) : startswith(log[a].stmts[j].text, <<"u","p","d">>)
          /\ log[b].call = "execute"
          /\ startswith(log[b].stmts[1].text, <<"D","R","O","P">>)

(***************************************************************************)
(* C4: for a table with a counter column every row is written as an UPDATE *)
(* whose SET clause has the counter columns that are not NULL and whose    *)
(* WHERE clause has every other column of the table, each in table order.  *)
(***************************************************************************)
ColumnNames(cols, keep(_)) ==
    LET kept == SelectSeq(cols, keep) IN [i \in 1..Len(kept) |-> kept[i].name]

ExpectedUpdate(cols, values) ==
    LET sets == ColumnNames(cols, LAMBDA c : is_counter(c) /\ values[c.name] # NULL)
        keys == ColumnNames(cols, LAMBDA c : ~is_counter(c))
    IN  <<"U","P","D","A","T","E"," ","\"">> \o ks \o <<"\"",".","\"">> \o t
        \o <<"\""," ","S","E","T"," ">>
        \o join(<<",", " ">>,
                [i \in 1..Len(sets) |->
                    sets[i] \o <<" ","="," ">> \o sets[i] \o <<" ","+"," ">> \o values[sets[i]]])
        \o <<" ","W","H","E","R","E"," ">>
        \o join(<<" ","A","N","D"," ">>,
                [i \in 1..Len(keys) |-> keys[i] \o <<" ","="," ">> \o values[keys[i]]])
        \o <<";", "\n">>

C4_CounterUpdate ==
    HasCounter(tableval) =>
        \A i \in 1..Len(written) : written[i].stmt = ExpectedUpdate(tableval, written[i].values)

(***************************************************************************)
(* C5: for a table without counter columns every row is written as an      *)
(* INSERT that lists the columns whose encoded value is not NULL, in table *)
(* order, and the values of those columns in the same order.               *)
(***************************************************************************)
ExpectedInsert(cols, values) ==
    LET listed == ColumnNames(cols, LAMBDA c : values[c.name] # NULL)
    IN  <<"I","N","S","E","R","T"," ","I","N","T","O"," ","\"">> \o ks \o <<"\"",".","\"">> \o t
        \o <<"\""," ","(">>
        \o join(<<",", " ">>, [i \in 1..Len(listed) |-> <<"\"">> \o listed[i] \o <<"\"">>])
        \o <<")"," ","V","A","L","U","E","S"," ","(">>
        \o join(<<",", " ">>, [i \in 1..Len(listed) |-> values[listed[i]]])
        \o <<")", ";", "\n">>

C5_SparseInsert ==
    (tableval # <<>> /\ ~HasCounter(tableval)) =>
        \A i \in 1..Len(written) : written[i].stmt = ExpectedInsert(tableval, written[i].values)

\* a row with a NULL cell and a cell that is not NULL was written
C5_Witness ==
    /\ tableval # <<>> /\ ~HasCounter(tableval) /\ Len(tableval) >= 2
    /\ \E i \in 1..Len(written) :
          /\ \E k \in DOMAIN written[i].values : written[i].values[k] = NULL
          /\ \E k \in DOMAIN written[i].values : written[i].values[k] # NULL

(***************************************************************************)
(* C6: an export run given more than one of --keyspace, --cf and --filter  *)
(* goes no further than the configuration error, and up to it no session   *)
(* is connected, no query is executed and nothing is written.              *)
(***************************************************************************)
C6_NoContactOnConflict ==
    (run = 1 /\ Exporting /\ selection_options > 1) =>
        /\ pc \in {"main", "export_data", "exit1"}
        /\ ~contacted
        /\ queries = 0
        /\ file = <<>>
        /\ written = <<>>

C8_AbortOnFailure ==
    /\ [](Failed => pc = "error" /\ ~log[Len(log)].ok)
    /\ [][Failed => log' = log]_vars

\* a call failed while lines were unread and statements were batched
C8_Witness ==
    /\ Importing /\ Failed
    /\ lines # <<>>
    /\ concurrent_statements # <<>>

(***************************************************************************)
(* C9: table_to_cqlfile writes no UPDATE with an empty WHERE clause.       *)
(***************************************************************************)
C9_NoEmptyWhere ==
    \A i \in 1..Len(written) :
        ~endswith(written[i].stmt, <<" ","W","H","E","R","E"," ",";","\n">>)

(***************************************************************************)
(* C10: at the start of an iteration the batch holds fewer than            *)
(* CONCURRENT_BATCH_SIZE statements, a call of execute_concurrent hands    *)
(* over between 1 and CONCURRENT_BATCH_SIZE statements, and the batch is   *)
(* empty after a flush.                                                    *)
(***************************************************************************)
BatchBounds ==
    /\ pc = "import_loop" => Len(concurrent_statements) < CONCURRENT_BATCH_SIZE
    /\ \A a \in 1..Len(log) :
          log[a].call = "execute_concurrent" =>
             Len(log[a].stmts) \in 1..CONCURRENT_BATCH_SIZE

\* a call of execute_concurrent was made, and returned, in this step
Flushed ==
    \E a \in (Len(log) + 1)..Len(log') :
        log'[a].call = "execute_concurrent" /\ log'[a].ok

\* C10 as first stated: the batch bounds hold and the batch is empty after every
\* flush, the one at end of input included
C10_EmptyAfterEveryFlush ==
    /\ []BatchBounds
    /\ [][Flushed => concurrent_statements' = <<>>]_vars

\* C10 amended: the batch bounds hold, the batch is empty after every flush made
\* inside the loop (lines 145-146 and 149-150), and the flush at end of input
\* (line 161) leaves the list as it is
C10_EmptyAfterLoopFlush ==
    /\ []BatchBounds
    /\ [][(Flushed /\ pc' = "import_loop") => concurrent_statements' = <<>>]_vars
    /\ [][(Flushed /\ pc' = "import_tail") => concurrent_statements' = concurrent_statements]_vars

\* a full batch was flushed inside the loop
C10_Witness ==
    /\ Importing /\ pc = "import_loop" /\ log # <<>>
    /\ log[Len(log)].call = "execute_concurrent"
    /\ log[Len(log)].ok
    /\ Len(log[Len(log)].stmts) = CONCURRENT_BATCH_SIZE
    /\ concurrent_statements = <<>>

====
